---- MODULE Spec2Model ----
(***************************************************************************)
(* Child-process supervisor of cn-infra (process/process_impl.go): the     *)
(* launcher, the terminator (stopProcess, forceStopProcess, delete), the   *)
(* liveness prober (isAlive) and the watchdog loop (watch), together with  *)
(* the operating system's view of the supervised children.                 *)
(***************************************************************************)
EXTENDS Integers, Sequences, FiniteSets, TLC

\* ------------------------------------------------------------------------
\* Bounds of the model
\* ------------------------------------------------------------------------
MaxBudget == 2      \* largest finite restart budget tried
NotifyCap == 1      \* capacity of the notification channel

\* ------------------------------------------------------------------------
\* Program constants and value domains
\* ------------------------------------------------------------------------
infiniteRestarts == -1

MinInt32 == -2147483647 - 1
MaxInt32 == 2147483647

Nil == 0
\* one pid for the host's launch and one for every restart
Pids == 1..(MaxBudget + 1)
Budgets == {infiniteRestarts} \cup (0..MaxBudget)

\* status.ProcessStatus values; Initial is the zero value of the type
Initial == ""
Run == "running"
Sleep == "sleeping"
Zombie == "zombie"
Terminated == "terminated"
Unavailable == "unavailable"

noSuchProcess == "no such process"
alreadyFinished == "process already finished"

\* no terminator operation returned in the last step
NoCall == [op |-> "none", err |-> "nil"]

VARIABLES
    process,      \* p.process: Nil or the pid of the os.Process it refers to
    startTime,    \* p.startTime is non-zero
    cancelChan,   \* p.cancelChan: "open" or "closed"
    restart,      \* p.options.restart
    hasNotify,    \* p.options.notifyChan is non-nil
    notifyChan,   \* values buffered in p.options.notifyChan
    notifyClosed, \* p.options.notifyChan has been closed
    os,           \* the operating system's state of every child ever started
    wpc,          \* position of the watch() goroutine
    last,         \* watch(): last
    current,      \* watch(): current
    probed,       \* isAlive() of the running tick: "nil" for a nil p.process, else the probe's outcome
    numRestarts,  \* watch(): numRestarts
    tasks,        \* restart goroutines spawned by watch() and not yet finished
    spawned,      \* restart goroutines spawned by watch() so far
    dpc,          \* position of the host's delete call: "idle" when none is running
    dwait,        \* the process the running delete waits for
    ret,          \* the terminator operation that returned in the last step, and its error
    panicked      \* "none", or the run-time panic that ended the program

vars == <<process, startTime, cancelChan, restart, hasNotify, notifyChan,
          notifyClosed, os, wpc, last, current, probed, numRestarts, tasks,
          spawned, dpc, dwait, ret, panicked>>

\* ------------------------------------------------------------------------
\* The operating system
\* ------------------------------------------------------------------------
StateOf(proc) == IF proc = Nil THEN "nil" ELSE os[proc]

FreshPid == CHOOSE p \in Pids : os[p] = "unborn" /\ \A q \in Pids : q < p => os[q] # "unborn"

\* outcomes of Signal(sig) on a process in state st: TRUE is delivery
SignalOutcomes(st) == IF st \in {"alive", "zombie"} THEN {TRUE, FALSE} ELSE {FALSE}

\* outcomes of the zero-signal probe on a process in state st
ProbeOutcomes(st) ==
    IF st \in {"alive", "zombie"} THEN {"ok", "operation not permitted"}
    ELSE {noSuchProcess, alreadyFinished}

\* readings of the status source for a process in state st ("" on failure)
StatusReadings(st) ==
    IF st = "alive" THEN {Run, Sleep, ""}
    ELSE IF st = "zombie" THEN {Zombie, ""}
    ELSE {""}

Reaped(proc) == IF StateOf(proc) = "zombie" THEN [os EXCEPT ![proc] = "gone"] ELSE os

\* ------------------------------------------------------------------------
\* Launcher
\* ------------------------------------------------------------------------
\* a failed start that still hands back a process
startProcess_HandleOnFailure(ok) ==
    IF ok THEN [proc |-> FreshPid, started |-> TRUE]
    ELSE [proc |-> FreshPid, started |-> FALSE]

startProcess(ok) ==
    IF ok THEN [proc |-> FreshPid, started |-> TRUE]
    ELSE [proc |-> Nil, started |-> FALSE]

\* p.process, err = p.startProcess(); a start succeeds only while the model
\* has a pid left for the new child
StartAndAssign(ok) ==
    LET r == startProcess(ok)
    IN /\ ok => \E p \in Pids : os[p] = "unborn"
       /\ process' = r.proc
       /\ startTime' = IF r.started THEN TRUE ELSE startTime
       /\ os' = IF r.started THEN [os EXCEPT ![r.proc] = "alive"] ELSE os

\* ------------------------------------------------------------------------
\* Terminator
\* ------------------------------------------------------------------------
\* a stop that clears the start time although the signal was not delivered
stopProcess_ClearsOnSignalError(proc, sigOK) ==
    IF proc = Nil
    THEN [err |-> "NoProcessError", kill |-> FALSE, released |-> FALSE, cleared |-> FALSE, panic |-> FALSE]
    ELSE IF ~sigOK
    THEN [err |-> "SignalError", kill |-> FALSE, released |-> FALSE, cleared |-> TRUE, panic |-> FALSE]
    ELSE [err |-> "nil", kill |-> FALSE, released |-> FALSE, cleared |-> TRUE, panic |-> FALSE]

stopProcess(proc, sigOK) ==
    IF proc = Nil
    THEN [err |-> "NoProcessError", kill |-> FALSE, released |-> FALSE, cleared |-> FALSE, panic |-> FALSE]
    ELSE IF ~sigOK
    THEN [err |-> "SignalError", kill |-> FALSE, released |-> FALSE, cleared |-> FALSE, panic |-> FALSE]
    ELSE [err |-> "nil", kill |-> FALSE, released |-> FALSE, cleared |-> TRUE, panic |-> FALSE]

forceStopProcess(proc, sigOK, relOK) ==
    IF proc # Nil
    THEN [err |-> "NoProcessError", kill |-> FALSE, released |-> FALSE, cleared |-> FALSE, panic |-> FALSE]
    ELSE IF proc = Nil   \* p.process.Signal on the nil *os.Process
    THEN [err |-> "panic", kill |-> FALSE, released |-> FALSE, cleared |-> FALSE, panic |-> TRUE]
    ELSE IF ~sigOK
    THEN [err |-> "SignalError", kill |-> TRUE, released |-> FALSE, cleared |-> FALSE, panic |-> FALSE]
    ELSE IF ~relOK
    THEN [err |-> "ReleaseError", kill |-> TRUE, released |-> FALSE, cleared |-> FALSE, panic |-> FALSE]
    ELSE [err |-> "nil", kill |-> TRUE, released |-> TRUE, cleared |-> TRUE, panic |-> FALSE]

\* ------------------------------------------------------------------------
\* Liveness prober
\* ------------------------------------------------------------------------
\* a prober that takes every probe error for a dead process
isAlive_AnyErrorIsDead(proc, probe) ==
    IF proc = Nil THEN FALSE
    ELSE IF probe # "ok" THEN FALSE
    ELSE TRUE

isAlive(proc, probe) ==
    IF proc = Nil THEN FALSE
    ELSE IF probe \in {noSuchProcess, alreadyFinished} THEN FALSE
    ELSE TRUE

\* ------------------------------------------------------------------------
\* Initial state: the handle as constructed, nothing started yet
\* ------------------------------------------------------------------------
Init ==
    /\ process = Nil
    /\ startTime = FALSE
    /\ cancelChan = "open"
    /\ restart \in Budgets
    /\ hasNotify \in BOOLEAN
    /\ notifyChan = <<>>
    /\ notifyClosed = FALSE
    /\ os = [p \in Pids |-> "unborn"]
    /\ wpc = "off"
    /\ last = Initial
    /\ current = Initial
    /\ probed = "none"
    /\ numRestarts = 0
    /\ tasks = 0
    /\ spawned = 0
    /\ dpc = "idle"
    /\ dwait = Nil
    /\ ret = NoCall
    /\ panicked = "none"

\* ------------------------------------------------------------------------
\* The host application and the environment
\* ------------------------------------------------------------------------
Live == panicked = "none"

\* the handle has never had a process
Fresh == process = Nil /\ \A p \in Pids : os[p] = "unborn"

\* the host launches the process of a fresh handle, before it starts the
\* watchdog: p.process, err = p.startProcess()
Launch ==
    /\ Live
    /\ Fresh
    /\ wpc = "off"
    /\ \E ok \in BOOLEAN : StartAndAssign(ok)
    /\ ret' = NoCall
    /\ UNCHANGED <<cancelChan, restart, hasNotify, notifyChan, notifyClosed, wpc, last,
                   current, probed, numRestarts, tasks, spawned, dpc, dwait, panicked>>

\* a child exits or is killed from outside; it stays a zombie until waited for
EnvExit ==
    /\ Live
    /\ \E p \in Pids :
         /\ os[p] = "alive"
         /\ os' = [os EXCEPT ![p] = "zombie"]
    /\ ret' = NoCall
    /\ UNCHANGED <<process, startTime, cancelChan, restart, hasNotify, notifyChan,
                   notifyClosed, wpc, last, current, probed, numRestarts, tasks, spawned,
                   dpc, dwait, panicked>>

\* Wait on proc can return: there is no process, or it has exited
WaitReady(proc) == StateOf(proc) \in {"nil", "zombie", "gone"}

\* Wait on proc succeeds when it collects an exited child
WaitOK(proc) == StateOf(proc) = "zombie"

\* the host waits for the process through the handle's Wait
HostWait ==
    /\ Live
    /\ WaitOK(process)
    /\ os' = Reaped(process)
    /\ ret' = NoCall
    /\ UNCHANGED <<process, startTime, cancelChan, restart, hasNotify, notifyChan,
                   notifyClosed, wpc, last, current, probed, numRestarts, tasks, spawned,
                   dpc, dwait, panicked>>

\* the subscriber receives one notification from the sink
Receive ==
    /\ Live
    /\ Len(notifyChan) > 0
    /\ notifyChan' = Tail(notifyChan)
    /\ ret' = NoCall
    /\ UNCHANGED <<process, startTime, cancelChan, restart, hasNotify, notifyClosed, os,
                   wpc, last, current, probed, numRestarts, tasks, spawned, dpc, dwait,
                   panicked>>

\* ------------------------------------------------------------------------
\* Terminator operations called by the host, concurrently with the
\* watchdog, the restart goroutines, the children and the subscriber.
\* stopProcess, forceStopProcess and Wait may be called at any time; delete
\* is called again only after the previous delete has returned.
\* ------------------------------------------------------------------------
Returned(name, r) == [op |-> name, err |-> r.err]

StopGraceful ==
    /\ Live
    /\ \E sigOK \in SignalOutcomes(StateOf(process)) :
         LET r == stopProcess(process, sigOK)
         IN /\ startTime' = IF r.cleared THEN FALSE ELSE startTime
            /\ ret' = Returned("stopProcess", r)
    /\ UNCHANGED <<process, cancelChan, restart, hasNotify, notifyChan, notifyClosed, os,
                   wpc, last, current, probed, numRestarts, tasks, spawned, dpc, dwait,
                   panicked>>

\* the operating system's state after forceStopProcess returned r
Killed(proc, r) ==
    IF r.kill /\ r.err # "SignalError" /\ StateOf(proc) = "alive"
    THEN [os EXCEPT ![proc] = "zombie"] ELSE os

StopForced ==
    /\ Live
    /\ \E sigOK \in SignalOutcomes(StateOf(process)), relOK \in BOOLEAN :
         LET r == forceStopProcess(process, sigOK, relOK)
         IN /\ startTime' = IF r.cleared THEN FALSE ELSE startTime
            /\ os' = Killed(process, r)
            /\ panicked' = IF r.panic THEN "nil dereference" ELSE panicked
            /\ ret' = Returned("forceStopProcess", r)
    /\ UNCHANGED <<process, cancelChan, restart, hasNotify, notifyChan, notifyClosed,
                   wpc, last, current, probed, numRestarts, tasks, spawned, dpc, dwait>>

\* delete, up to its first blocking point: stopProcess, then forceStopProcess
\* when that failed, else the call of p.Wait() on the process just signalled
DeleteStop ==
    /\ Live
    /\ dpc = "idle"
    /\ \E sigOK \in SignalOutcomes(StateOf(process)), relOK \in BOOLEAN :
         LET g == stopProcess(process, sigOK)
             f == forceStopProcess(process, sigOK, relOK)
         IN IF g.err = "nil"
            THEN /\ startTime' = FALSE
                 /\ dpc' = "wait"
                 /\ dwait' = process
                 /\ ret' = NoCall
                 /\ UNCHANGED <<os, panicked>>
            ELSE /\ startTime' = IF f.cleared THEN FALSE ELSE startTime
                 /\ os' = Killed(process, f)
                 /\ panicked' = IF f.panic THEN "nil dereference" ELSE panicked
                 /\ dpc' = IF f.err = "nil" THEN "close" ELSE "idle"
                 /\ ret' = IF f.err = "nil" THEN NoCall ELSE Returned("delete", f)
                 /\ UNCHANGED dwait
    /\ UNCHANGED <<process, cancelChan, restart, hasNotify, notifyChan, notifyClosed,
                   wpc, last, current, probed, numRestarts, tasks, spawned>>

\* delete: p.Wait() returns after a successful graceful stop
DeleteWait ==
    /\ Live
    /\ dpc = "wait"
    /\ WaitReady(dwait)
    /\ os' = Reaped(dwait)
    /\ dpc' = IF WaitOK(dwait) THEN "close" ELSE "idle"
    /\ dwait' = Nil
    /\ ret' = IF WaitOK(dwait) THEN NoCall ELSE [op |-> "delete", err |-> "WaitError"]
    /\ UNCHANGED <<process, startTime, cancelChan, restart, hasNotify, notifyChan,
                   notifyClosed, wpc, last, current, probed, numRestarts, tasks, spawned,
                   panicked>>

\* a delete that leaves the channel as it is
CloseChan_Skipped(ch) == ch

\* close(p.cancelChan) is skipped for a nil channel
CloseChan(ch) == IF ch = "nil" THEN "nil" ELSE "closed"

\* closing a closed channel panics
ClosePanics(ch) == ch = "closed"

\* delete: close the watcher's channel and return
DeleteClose ==
    /\ Live
    /\ dpc = "close"
    /\ dpc' = "idle"
    /\ IF ClosePanics(cancelChan)
       THEN /\ panicked' = "close of closed channel"
            /\ ret' = [op |-> "delete", err |-> "panic"]
            /\ UNCHANGED cancelChan
       ELSE /\ cancelChan' = CloseChan(cancelChan)
            /\ ret' = [op |-> "delete", err |-> "nil"]
            /\ UNCHANGED panicked
    /\ UNCHANGED <<process, startTime, restart, hasNotify, notifyChan, notifyClosed, os,
                   wpc, last, current, probed, numRestarts, tasks, spawned, dwait>>

\* ------------------------------------------------------------------------
\* Watchdog
\* ------------------------------------------------------------------------
\* go p.watch(): the loop starts with the zero status and the configured budget
StartWatch ==
    /\ Live
    /\ wpc = "off"
    /\ wpc' = "select"
    /\ last' = Initial
    /\ numRestarts' = restart
    /\ ret' = NoCall
    /\ UNCHANGED <<process, startTime, cancelChan, restart, hasNotify, notifyChan,
                   notifyClosed, os, current, probed, tasks, spawned, dpc, dwait, panicked>>

\* a tick that takes an empty status reading of a live process for Terminated
Observed_EmptyIsTerminated(proc, probe, reading) ==
    IF ~isAlive(proc, probe) THEN Terminated
    ELSE IF reading = "" THEN Terminated
    ELSE reading

\* the state a tick observes
Observed(proc, probe, reading) ==
    IF ~isAlive(proc, probe) THEN Terminated
    ELSE IF reading = "" THEN Unavailable
    ELSE reading

\* a loop that takes every tick for a change
Changed_Always(cur, lst) == TRUE

\* a loop that compares only a tick that observed a live process with the last
Changed_WhenDown(cur, lst) == cur = Terminated \/ cur # lst

Changed(cur, lst) == cur # lst

\* a loop that applies the restart policy to a zombie as well
PolicyApplies_ZombieToo(cur) == cur \in {Terminated, Zombie}

\* the restart policy is applied to a tick that observed cur
PolicyApplies(cur) == cur = Terminated

\* the process is reaped on a tick that observed cur
ReapApplies(cur) == cur = Zombie

\* a policy that still restarts with no budget left
RestartAllowed_AtZero(n) == n >= 0 \/ n = infiniteRestarts

RestartAllowed(n) == n > 0 \/ n = infiniteRestarts

\* a loop that forgets to count the restart
Decrement_Forgotten(n) == n

\* numRestarts-- on an int32
Decrement(n) == IF n = MinInt32 THEN MaxInt32 ELSE n - 1

\* case <-ticker.C, first half: probe liveness and read the status
Observe ==
    /\ Live
    /\ wpc = "select"
    /\ \E probe \in ProbeOutcomes(StateOf(process)), reading \in StatusReadings(StateOf(process)) :
         /\ current' = Observed(process, probe, reading)
         /\ probed' = IF process = Nil THEN "nil" ELSE probe
    /\ wpc' = "observed"
    /\ ret' = NoCall
    /\ UNCHANGED <<process, startTime, cancelChan, restart, hasNotify, notifyChan,
                   notifyClosed, os, last, numRestarts, tasks, spawned, dpc, dwait,
                   panicked>>

\* case <-ticker.C, second half: notify, restart policy, zombie reaping; the
\* send blocks while the channel is full and p.Wait() while the process lives
Act ==
    /\ Live
    /\ wpc = "observed"
    /\ LET changed == Changed(current, last)
           doSend == changed /\ hasNotify
           doRestart == changed /\ PolicyApplies(current) /\ RestartAllowed(numRestarts)
           doReap == changed /\ ReapApplies(current)
       IN /\ doSend => Len(notifyChan) < NotifyCap
          /\ doReap => WaitReady(process)
          /\ notifyChan' = IF doSend THEN Append(notifyChan, current) ELSE notifyChan
          /\ tasks' = IF doRestart THEN tasks + 1 ELSE tasks
          /\ spawned' = IF doRestart THEN spawned + 1 ELSE spawned
          /\ numRestarts' = IF doRestart THEN Decrement(numRestarts) ELSE numRestarts
          /\ os' = IF doReap THEN Reaped(process) ELSE os
    /\ last' = current
    /\ probed' = "none"
    /\ wpc' = "select"
    /\ ret' = NoCall
    /\ UNCHANGED <<process, startTime, cancelChan, restart, hasNotify, notifyClosed,
                   current, dpc, dwait, panicked>>

\* a restart goroutine that gives the restart back when the start fails
RestartTask_RefundsOnFailure ==
    /\ Live
    /\ tasks > 0
    /\ tasks' = tasks - 1
    /\ \E ok \in BOOLEAN :
         /\ StartAndAssign(ok)
         /\ numRestarts' = IF ok THEN numRestarts ELSE numRestarts + 1
    /\ ret' = NoCall
    /\ UNCHANGED <<cancelChan, restart, hasNotify, notifyChan, notifyClosed, wpc, last,
                   current, probed, spawned, dpc, dwait, panicked>>

\* the restart goroutine spawned by watch()
RestartTask ==
    /\ Live
    /\ tasks > 0
    /\ tasks' = tasks - 1
    /\ \E ok \in BOOLEAN : StartAndAssign(ok)
    /\ ret' = NoCall
    /\ UNCHANGED <<cancelChan, restart, hasNotify, notifyChan, notifyClosed, wpc, last,
                   current, probed, numRestarts, spawned, dpc, dwait, panicked>>

\* a cancel branch that returns without closing the notification channel
Cancel_SinkLeftOpen ==
    /\ Live
    /\ wpc = "select"
    /\ cancelChan = "closed"
    /\ wpc' = "stopped"
    /\ ret' = NoCall
    /\ UNCHANGED <<process, startTime, cancelChan, restart, hasNotify, notifyChan, notifyClosed,
                   os, last, current, probed, numRestarts, tasks, spawned, dpc, dwait, panicked>>

\* case <-p.cancelChan
Cancel ==
    /\ Live
    /\ wpc = "select"
    /\ cancelChan = "closed"
    /\ notifyClosed' = hasNotify
    /\ wpc' = "stopped"
    /\ ret' = NoCall
    /\ UNCHANGED <<process, startTime, cancelChan, restart, hasNotify, notifyChan, os,
                   last, current, probed, numRestarts, tasks, spawned, dpc, dwait, panicked>>

Next ==
    \/ Launch
    \/ EnvExit
    \/ HostWait
    \/ Receive
    \/ StopGraceful
    \/ StopForced
    \/ DeleteStop
    \/ DeleteWait
    \/ DeleteClose
    \/ StartWatch
    \/ Observe
    \/ Act
    \/ RestartTask
    \/ Cancel

Spec == Init /\ [][Next]_vars

\* the scheduling the Go runtime gives the program: the ticker keeps firing
\* and the watch goroutine and the restart goroutines keep running (weak
\* fairness); select picks at random among its ready cases, so a closed
\* cancelChan that is ready at every select is served (strong fairness);
\* the consumer of the notification channel keeps receiving
Fairness ==
    /\ WF_vars(Observe)
    /\ WF_vars(Act)
    /\ WF_vars(RestartTask)
    /\ WF_vars(Receive)
    /\ SF_vars(Cancel)

FairSpec == Spec /\ Fairness

\* ------------------------------------------------------------------------
\* Properties
\* ------------------------------------------------------------------------
\* the terminator operation name returns (or panics) in this step
Returns(name) == ret'.op = name

\* the watchdog finishes a tick in this step
TickDone == wpc = "observed" /\ wpc' = "select"

\* the tick finishing in this step is one whose observation changed to Terminated
TerminatedTick == TickDone /\ current = Terminated /\ current # last

\* C1: stopProcess and forceStopProcess called with a nil p.process each
\* return NoProcessError, and the program does not panic on the nil reference.
C1_NilHandleRefused ==
    [][((Returns("stopProcess") \/ Returns("forceStopProcess")) /\ process = Nil)
          => (ret'.err = "NoProcessError" /\ panicked' = "none")]_vars

\* C2: forceStopProcess called with a non-nil p.process does not fail with
\* NoProcessError, and when it returns success startTime is cleared.
C2_ForcedStopActs ==
    [][(Returns("forceStopProcess") /\ process # Nil)
          => (ret'.err # "NoProcessError" /\ (ret'.err = "nil" => ~startTime'))]_vars

\* C3: a tick whose observation changes to Terminated spawns exactly one
\* relaunch and takes one from numRestarts when numRestarts > 0, and spawns
\* nothing and leaves numRestarts alone when numRestarts = 0.
C3_RestartPolicy ==
    [][TerminatedTick =>
         /\ numRestarts > 0 =>
               /\ spawned' = spawned + 1
               /\ tasks' = tasks + 1
               /\ numRestarts' = numRestarts - 1
         /\ numRestarts = 0 => UNCHANGED <<spawned, tasks, numRestarts>>]_vars

C3_Witness ==
    /\ restart = 2 /\ numRestarts = 1 /\ spawned = 1
    /\ wpc = "select" /\ last = Terminated

\* C4: with the infinite budget, every tick whose observation changes to
\* Terminated spawns a relaunch and leaves numRestarts unchanged.
C4_InfiniteBudget ==
    [][(TerminatedTick /\ restart = infiniteRestarts)
          => (spawned' = spawned + 1 /\ numRestarts' = numRestarts)]_vars

\* C5: numRestarts is never negative with a finite budget and never a
\* negative value other than the infinite sentinel.
C5_CounterRange ==
    wpc # "off" => (numRestarts >= 0 \/ numRestarts = infiniteRestarts)

\* C6: with a finite budget N >= 0 the relaunches spawned by the loop never
\* exceed N.
C6_BudgetBound == restart >= 0 => spawned <= restart

C6_Witness == restart = 2 /\ spawned = 2 /\ numRestarts = 0 /\ tasks = 0 /\ process # Nil

\* C7: with a sink configured, a tick sends its observation to the sink if
\* and only if the observation differs from last; every tick sets last to
\* its observation.
C7_NotifyIffChanged ==
    [][TickDone =>
         /\ last' = current
         /\ hasNotify => ((notifyChan' = Append(notifyChan, current)) <=> (current # last))
         /\ (hasNotify /\ current = last) => notifyChan' = notifyChan]_vars

C7_Witness ==
    /\ hasNotify /\ wpc = "select" /\ last = Run /\ current = Run
    /\ notifyChan = <<Run>>

\* C8 as stated: whenever delete has returned, with or without an error,
\* cancelChan is closed.
C8_ClosedInAllOutcomes ==
    (ret.op = "delete" /\ ret.err # "panic") => cancelChan = "closed"

\* C8 as amended: a delete that returns success has closed cancelChan; a delete
\* that returns an error returns without touching cancelChan.
C8_ClosedOnSuccessOnly ==
    [][(Returns("delete") /\ ret'.err # "panic")
          => IF ret'.err = "nil" THEN cancelChan' = "closed"
             ELSE cancelChan' = cancelChan]_vars

C8_Witness == ret = [op |-> "delete", err |-> "nil"] /\ cancelChan = "closed"

\* C9: no sequence of delete calls closes cancelChan a second time or panics
\* on a repeated close.
C9_ClosedAtMostOnce == panicked # "close of closed channel"

\* C10: when the graceful stop fails inside delete on a non-nil p.process,
\* the forced stop attempts the kill, so delete returns an error only if the
\* forced stop failed to deliver the kill signal or to release the resource
\* (or, on the other path, the wait failed).
C10_FallbackKills ==
    [][(Returns("delete") /\ process # Nil /\ ret'.err \notin {"nil", "panic", "WaitError"})
          => ret'.err \in {"SignalError", "ReleaseError"}]_vars

\* C11: p.process is nil again once the process is no longer believed
\* running: after a tick whose observation changed to Terminated, and after
\* stopProcess, forceStopProcess or delete returned success.
C11_NilWhenNotRunning ==
    [][(\/ TerminatedTick
        \/ ((Returns("stopProcess") \/ Returns("forceStopProcess") \/ Returns("delete"))
              /\ ret'.err = "nil"))
          => process' = Nil]_vars

\* C11, amended: p.process is written only by a launch or by a finishing
\* restart task, which store the new child on success and nil on failure; no
\* tick and no stopProcess, forceStopProcess or delete writes it.
C11_WrittenByStartOnly ==
    [][/\ process' # process =>
            /\ tasks' = tasks - 1 \/ (Fresh /\ wpc = "off")
            /\ process' # Nil => (os[process'] = "unborn" /\ os'[process'] = "alive")
       /\ (TickDone \/ Returns("stopProcess") \/ Returns("forceStopProcess") \/ Returns("delete"))
             => process' = process]_vars

C11_Witness ==
    /\ ret = [op |-> "delete", err |-> "nil"]
    /\ process # Nil /\ os[process] = "gone"

\* the watch goroutine is in its loop
Watching == wpc \in {"select", "observed"}

ScenarioA ==
    /\ restart = 2 /\ numRestarts = 1 /\ spawned = 1 /\ tasks = 1
    /\ process # Nil /\ os[process] = "gone"
    /\ wpc = "select" /\ last = Terminated

\* the scenario's premises no longer hold: the restart failed or the new
\* child did not keep running, the loop was cancelled, or the program died
ScenarioLeft ==
    \/ tasks = 0 /\ StateOf(process) # "alive"
    \/ cancelChan = "closed"
    \/ ~Live

C14_FailuresKeepLoop ==
    /\ [][tasks' = tasks - 1 => UNCHANGED <<numRestarts, spawned, wpc, last, current>>]_vars
    /\ [][TickDone => (wpc' = "select" /\ last' = current)]_vars
    /\ [][(Watching /\ wpc' \notin {"select", "observed"}) =>
            (wpc = "select" /\ cancelChan = "closed" /\ wpc' = "stopped")]_vars
    /\ [](cancelChan = "open" /\ wpc # "off" => Watching)
    /\ (wpc = "observed") ~> (wpc = "select" \/ ~Live)

\* a restart failed: the restart is spent, p.process is nil, the loop polls
C14_Witness ==
    /\ restart = 2 /\ numRestarts = 1 /\ spawned = 1 /\ tasks = 0
    /\ process = Nil /\ last = Terminated
    /\ wpc = "observed" /\ cancelChan = "open"

\* C15: a stopProcess that returns success has cleared startTime in the
\* same step, without waiting for the process to exit (the operating
\* system's state is the same); a stopProcess that fails, for a nil
\* p.process or an undelivered signal, leaves startTime and p.process as
\* they were.
C15_StopFrame ==
    [][Returns("stopProcess") =>
         /\ ret'.err \in {"nil", "NoProcessError", "SignalError"}
         /\ ret'.err = "NoProcessError" <=> process = Nil
         /\ ret'.err = "nil" => (~startTime' /\ UNCHANGED <<process, os>>)
         /\ ret'.err # "nil" => UNCHANGED <<startTime, process, os>>]_vars

\* stopProcess returned success while the process is still alive
C15_Witness ==
    /\ ret = [op |-> "stopProcess", err |-> "nil"]
    /\ process # Nil /\ os[process] = "alive" /\ ~startTime

\* C16: isAlive is false for a nil p.process and for a probe that reports
\* "no such process" or "process already finished", and true for every
\* other probe outcome, the permission error included; the tick takes
\* Terminated exactly when isAlive is false.
C16_AliveUnlessGone ==
    wpc = "observed" =>
        /\ probed \in {"nil", "ok", "operation not permitted", noSuchProcess, alreadyFinished}
        /\ current = Terminated <=> probed \in {"nil", noSuchProcess, alreadyFinished}

\* a probe refused for lack of permission counted as alive
C16_Witness ==
    /\ wpc = "observed" /\ probed = "operation not permitted"
    /\ current \in {Run, Sleep, Zombie, Unavailable}

\* C17: a tick whose observation changes to Zombie waits for the process,
\* which reaps it, spawns no restart and leaves numRestarts alone, and ends
\* back at the select whether the wait succeeded or not; only a tick that
\* observed Terminated spawns a restart or changes numRestarts.
C17_ZombieReapedNotRestarted ==
    /\ [][(TickDone /\ current = Zombie /\ current # last) =>
            /\ StateOf(process) = "zombie" => os'[process] = "gone"
            /\ \A p \in Pids : p # process => os'[p] = os[p]
            /\ UNCHANGED <<spawned, tasks, numRestarts, process>>
            /\ wpc' = "select" /\ last' = Zombie]_vars
    /\ [][(TickDone /\ current # Terminated) => UNCHANGED <<spawned, tasks, numRestarts>>]_vars
    /\ [][(spawned' # spawned \/ numRestarts' # numRestarts) =>
            (TickDone /\ current = Terminated) \/ wpc = "off"]_vars

\* the zombie was reaped by the tick, with the restarts untouched
C17_Witness ==
    /\ wpc = "select" /\ last = Zombie
    /\ process # Nil /\ os[process] = "gone"
    /\ restart = 2 /\ numRestarts = 2 /\ spawned = 0 /\ tasks = 0

\* the process is terminated and no restart task is in flight, while the
\* loop runs with restarts left and cancelChan open
TerminatedUnattended ==
    /\ Watching /\ cancelChan = "open" /\ Live
    /\ RestartAllowed(numRestarts)
    /\ tasks = 0 /\ StateOf(process) \in {"nil", "gone"}

\* C18: while restarts are left and cancelChan is open, every termination is
\* eventually followed by a restart attempt under fair ticking, also when
\* the child dies again before the next tick and when the termination
\* follows a failed restart.
C18_TerminationRestarted ==
    TerminatedUnattended ~> (tasks > 0 \/ cancelChan = "closed" \/ ~Live)

\* C19: when delete returns success the supervised process is not running
\* and will not be relaunched: p.process refers to no live child and no
\* restart task is in flight that could still write p.process.
C19_DeletedStaysDown ==
    (ret = [op |-> "delete", err |-> "nil"]) =>
        (StateOf(process) # "alive" /\ tasks = 0)

\* C20: at most one restart task is in flight: the loop spawns a restart
\* only on a tick whose observation changed to Terminated, and while the
\* task has not written p.process the process stays down and every tick
\* observes Terminated again, so no second task is spawned before the first
\* one finished.
C20_OneRestartInFlight ==
    /\ tasks \in {0, 1}
    /\ tasks = 1 => (StateOf(process) \in {"nil", "gone"} /\ (Watching => last = Terminated \/ wpc = "observed"))

\* the second restart in flight, after the first one finished
C20_Witness ==
    /\ tasks = 1 /\ spawned = 2
    /\ process # Nil /\ os[process] = "gone"

====
